---- MODULE Spec2Model ----
(***************************************************************************)
(* A model of nano-eslint.novaextension/Scripts/main.js: the config        *)
(* locator (getClosestEslintConfig), the lint runner (eslint / lint), the  *)
(* issue mapping (maybeLint), and fix-on-save (maybeFix, onWillSave).      *)
(*                                                                         *)
(* main.js declares runAsync, getClosestEslintConfig and maybeLint twice   *)
(* (lines 17-153 and lines 217-308).  The variable "variant" says which    *)
(* declaration of a twice-declared function is the one bound: 1 for the    *)
(* first, 2 for the second.  Functions declared once (eslint, maybeFix,    *)
(* the onWillSave handler) call whichever declaration is bound.            *)
(*                                                                         *)
(* Directories are the ancestors of the document's directory, named by     *)
(* their depth below the filesystem root (0 is "/").  A path string is a   *)
(* record [base, ups] or [base, ups, name]: the directory at depth base    *)
(* followed by ups "../" segments, then the file name.                     *)
(***************************************************************************)
EXTENDS Integers, Sequences, FiniteSets, TLC

VARIABLES
    variant,         \* which declaration of a duplicated function is bound
    joinNormalizes,  \* host: does nova.path.join collapse "../" segments
    config_names,    \* setting org.nano-eslint.config_names
    fs,              \* the files that exist: a set of [dir, name]
    dirname,         \* getClosestEslintConfig's argument (a depth)
    i,               \* getClosestEslintConfig's loop counter
    pc,              \* "walk" in the while loop, "done" after return
    found,           \* getClosestEslintConfig's return value
    path,            \* editor.document.path
    issueDefault,    \* host: the severity of a new Issue() before any assignment
    lint,            \* the maybeLint call in progress or last settled
    fix_on_save,     \* setting org.nano-eslint.fix_on_save
    editor,          \* the text editor: added to the workspace, its onWillSave listener
    doc,             \* the text of editor.document
    disk,            \* the text of the document's file
    runs,            \* the maybeFix calls awaiting the process or the edit
    timers,          \* pending setTimeout(() => editor.save(), 10) callbacks
    lastFix          \* the maybeFix call that settled in the last step, if any

locVars == <<variant, joinNormalizes, config_names, fs, dirname, i, pc, found>>
lintVars == <<path, issueDefault, lint>>
fixVars == <<fix_on_save, editor, doc, disk, runs, timers, lastFix>>
vars == <<locVars, lintVars, fixVars>>

(***************************************************************************)
(* Bounds of the model.                                                    *)
(***************************************************************************)
NearDepth == 2    \* shallow start directories: depth 0..NearDepth
FarDepth == 2     \* deep start directories: depth AscentLimit+1 .. AscentLimit+FarDepth

(***************************************************************************)
(* Values of the program.                                                  *)
(***************************************************************************)
Undefined == [t |-> "undefined"]
Null == [t |-> "null"]

DEFAULT_ESLINT_CONFIG_FILENAMES ==
    << "eslint.config.js", "eslint.config.mjs", "eslint.config.cjs",
       "eslint.config.ts", "eslint.config.mts", "eslint.config.cts" >>

ESLINT_CONFIG_FILENAMES ==
    << "eslint.config.js", "eslint.config.mjs", "eslint.config.cjs",
       "eslint.config.ts", "eslint.config.mts", "eslint.config.cts" >>

\* the literal 100 of "i > 100"
AscentLimit == 100

Max(a, b) == IF a >= b THEN a ELSE b

(***************************************************************************)
(* Host path and filesystem functions.                                     *)
(***************************************************************************)
\* nova.path.join(dirname, "../".repeat(n)): a host that normalises
\* collapses the segments (never above "/"); one that does not keeps them.
joinUp(dir, n) ==
    IF joinNormalizes THEN [base |-> Max(dir - n, 0), ups |-> 0]
    ELSE [base |-> dir, ups |-> n]

\* nova.path.join(configRoot, configFileName)
joinName(root, name) == [base |-> root.base, ups |-> root.ups, name |-> name]

\* the directory the operating system reaches for a path ("/.." is "/")
Resolve(p) == Max(p.base - p.ups, 0)

\* nova.fs.stat(configPath): truthy iff the file exists
stat(p) == [dir |-> Resolve(p), name |-> p.name] \in fs

\* nova.path.normalize(configPath)
normalize(p) == [t |-> "path", dir |-> Resolve(p), name |-> p.name]

\* configRoot === "/"
IsRootString(root) == root.base = 0 /\ root.ups = 0

\* nova.config.get("org.nano-eslint.config_names", "array") ?? []
ConfigNamesOrEmpty == IF config_names.isNull THEN << >> ELSE config_names.value

(***************************************************************************)
(* getClosestEslintConfig, first declaration (lines 36-58).                *)
(***************************************************************************)
eslintConfigFilenames == ConfigNamesOrEmpty \o DEFAULT_ESLINT_CONFIG_FILENAMES

\* the for loop of lines 46-50 from index k on: the first existing
\* candidate, normalised, or Undefined when the loop falls through
RECURSIVE ProbeNames(_, _, _)
ProbeNames(names, k, root) ==
    IF k > Len(names) THEN Undefined
    ELSE IF stat(joinName(root, names[k])) THEN normalize(joinName(root, names[k]))
    ELSE ProbeNames(names, k + 1, root)

\* one iteration of the while loop, lines 44-56
\* [ret |-> TRUE, value] when it returns, [ret |-> FALSE] when it does i++
WalkLevelBoundOff(dir, n) ==
    LET root == joinUp(dir, n)
        hit == ProbeNames(eslintConfigFilenames, 1, root)
    IN  IF hit # Undefined THEN [ret |-> TRUE, value |-> hit]
        ELSE IF IsRootString(root) THEN [ret |-> TRUE, value |-> Undefined]
        ELSE IF n > AscentLimit + 1 THEN [ret |-> TRUE, value |-> Undefined]
        ELSE [ret |-> FALSE]

WalkLevel(dir, n) ==
    LET root == joinUp(dir, n)
        hit == ProbeNames(eslintConfigFilenames, 1, root)
    IN  IF hit # Undefined THEN [ret |-> TRUE, value |-> hit]
        ELSE IF IsRootString(root) THEN [ret |-> TRUE, value |-> Undefined]
        ELSE IF n > AscentLimit THEN [ret |-> TRUE, value |-> Undefined]
        ELSE [ret |-> FALSE]

(***************************************************************************)
(* getClosestEslintConfig, second declaration (lines 236-252): the root    *)
(* test and the bound test sit inside the for loop, after the first probe  *)
(* that misses.                                                            *)
(***************************************************************************)
RECURSIVE ProbeNames2(_, _, _, _)
ProbeNames2(names, k, root, n) ==
    IF k > Len(names) THEN [ret |-> FALSE]
    ELSE IF stat(joinName(root, names[k]))
         THEN [ret |-> TRUE, value |-> normalize(joinName(root, names[k]))]
    ELSE IF IsRootString(root) THEN [ret |-> TRUE, value |-> Undefined]
    ELSE IF n > AscentLimit THEN [ret |-> TRUE, value |-> Undefined]
    ELSE ProbeNames2(names, k + 1, root, n)

WalkLevel2(dir, n) == ProbeNames2(ESLINT_CONFIG_FILENAMES, 1, joinUp(dir, n), n)

\* the iteration of whichever declaration is bound
WalkStep(dir, n) == IF variant = 1 THEN WalkLevel(dir, n) ELSE WalkLevel2(dir, n)

\* the whole call, as the loop computes it
RECURSIVE WalkFrom(_, _)
WalkFrom(dir, n) ==
    LET r == WalkStep(dir, n)
    IN  IF r.ret THEN r.value ELSE WalkFrom(dir, n + 1)

getClosestEslintConfig(dir) == WalkFrom(dir, 0)

(***************************************************************************)
(* The locator as a state machine: one action per loop iteration.          *)
(***************************************************************************)
UserName == ".eslintrc.js"

ConfigNamesSettings ==
    { [isNull |-> TRUE, value |-> << >>],
      [isNull |-> FALSE, value |-> << UserName >>] }

\* file names that trees of the model hold
TreeNames == { UserName, "eslint.config.js", "eslint.config.mjs", "eslint.config.cts" }

StartDepths == (0 .. NearDepth) \cup ((AscentLimit + 1) .. (AscentLimit + FarDepth))

\* the ascent levels at which trees of the model hold files: next to the
\* start directory and around the ascent limit
TreeLevels == (0 .. NearDepth) \cup ((AscentLimit - 1) .. (AscentLimit + FarDepth))

Positions(d) ==
    { [dir |-> d - l, name |-> n] : l \in { x \in TreeLevels : x <= d }, n \in TreeNames }

\* the trees of the model: at most two files on the ancestor chain
Trees(d) == { {} } \cup { {p, q} : p \in Positions(d), q \in Positions(d) }

InitLocate ==
    /\ variant \in {1, 2}
    /\ joinNormalizes \in BOOLEAN
    /\ config_names \in ConfigNamesSettings
    /\ dirname \in StartDepths
    /\ fs \in Trees(dirname)
    /\ i = 0
    /\ pc = "walk"
    /\ found = Undefined
    /\ path = Undefined
    /\ issueDefault = "unset"
    /\ lint = [st |-> "idle"]
    /\ fix_on_save = Null
    /\ editor = [added |-> FALSE]
    /\ doc = ""
    /\ disk = ""
    /\ runs = << >>
    /\ timers = 0
    /\ lastFix = [st |-> "none"]

\* an iteration that ends with i++
Ascend ==
    /\ pc = "walk"
    /\ ~WalkStep(dirname, i).ret
    /\ i' = i + 1
    /\ UNCHANGED <<variant, joinNormalizes, config_names, fs, dirname, pc, found>>
    /\ UNCHANGED <<lintVars, fixVars>>

\* an iteration that returns
Return ==
    /\ pc = "walk"
    /\ WalkStep(dirname, i).ret
    /\ found' = WalkStep(dirname, i).value
    /\ pc' = "done"
    /\ UNCHANGED <<variant, joinNormalizes, config_names, fs, dirname, i>>
    /\ UNCHANGED <<lintVars, fixVars>>

NextLocate == Ascend \/ Return

SpecLocate == InitLocate /\ [][NextLocate]_vars

(***************************************************************************)
(* JavaScript values.  A value is a record tagged by its typeof / kind;    *)
(* an object keeps its properties as a sequence of <<key, value>> pairs in *)
(* source order.                                                           *)
(***************************************************************************)
Num(n) == [t |-> "number", n |-> n]
Str(s) == [t |-> "string", s |-> s]
Arr(a) == [t |-> "array", a |-> a]
Obj(o) == [t |-> "object", o |-> o]

\* Array.isArray(v)
IsArray(v) == v.t = "array"

\* !v is false
Truthy(v) ==
    CASE v.t = "undefined" -> FALSE
      [] v.t = "null" -> FALSE
      [] v.t = "number" -> v.n # 0
      [] v.t = "string" -> v.s # ""
      [] OTHER -> TRUE

\* v.key, for a v that is neither null nor undefined
Get(v, key) ==
    IF v.t = "object" /\ \E k \in 1 .. Len(v.o) : v.o[k][1] = key
    THEN v.o[CHOOSE k \in 1 .. Len(v.o) :
                 v.o[k][1] = key /\ \A j \in (k + 1) .. Len(v.o) : v.o[j][1] # key][2]
    ELSE Undefined

\* v[0], for a v that is neither null nor undefined
Get0(v) ==
    CASE v.t = "array" -> IF Len(v.a) >= 1 THEN v.a[1] ELSE Undefined
      [] v.t = "string" -> IF v.s # "" THEN Str(SubSeq(v.s, 1, 1)) ELSE Undefined
      [] OTHER -> Get(v, "0")

\* v is null or undefined: property access on it throws a TypeError
Nullish(v) == v.t \in {"null", "undefined"}

(***************************************************************************)
(* JSON text.  JSONstringify writes the text of a value; JSON.parse of a   *)
(* text is the value of the tool's repertoire that has this text, and a    *)
(* SyntaxError for any other text.                                         *)
(***************************************************************************)
RECURSIVE JSONstringify(_)
RECURSIVE StringifyItems(_, _)
RECURSIVE StringifyPairs(_, _)
JSONstringify(v) ==
    CASE v.t = "null" -> "null"
      [] v.t = "number" -> ToString(v.n)
      [] v.t = "string" -> "\"" \o v.s \o "\""
      [] v.t = "array" -> "[" \o StringifyItems(v.a, 1) \o "]"
      [] v.t = "object" -> "{" \o StringifyPairs(v.o, 1) \o "}"

StringifyItems(a, k) ==
    IF k > Len(a) THEN ""
    ELSE JSONstringify(a[k]) \o (IF k < Len(a) THEN "," ELSE "") \o StringifyItems(a, k + 1)

StringifyPairs(o, k) ==
    IF k > Len(o) THEN ""
    ELSE "\"" \o o[k][1] \o "\":" \o JSONstringify(o[k][2])
         \o (IF k < Len(o) THEN "," ELSE "") \o StringifyPairs(o, k + 1)

(***************************************************************************)
(* The external tool's repertoire: the results it may print.               *)
(***************************************************************************)
MessageTexts ==
    { "File ignored", "File ignored because of a matching ignore pattern",
      "File ignored later", "Ignored file: foo", "File ignoredx", "File ignored_",
      "file ignored", "File ignore", "Unexpected var", "" }

\* the severity property of a message: absent, or one of these values
SeverityValues == { Num(0), Num(1), Num(2), Num(3), Str("2") }

Message(text, line, sev) ==
    Obj(<< <<"message", Str(text)>>, <<"line", Num(line)>>, <<"column", Num(1)>> >> \o sev)

WellFormedMessages ==
    { Message(x, 1, sev) : x \in MessageTexts,
                           sev \in { << >> } \cup { << <<"severity", v>> >> : v \in SeverityValues } }
    \cup { Obj(<< <<"message", Str("Unexpected var")>>, <<"line", Num(1)>>, <<"column", Num(1)>>,
                  <<"endLine", Num(1)>>, <<"endColumn", Num(4)>>, <<"severity", Num(2)>> >>) }

MalformedMessages ==
    { Null,
      Obj(<< >>),
      Obj(<< <<"severity", Num(2)>> >>),
      Obj(<< <<"message", Num(7)>>, <<"line", Num(1)>>, <<"column", Num(1)>>, <<"severity", Num(2)>> >>),
      Obj(<< <<"message", Str("Unexpected var")>>, <<"column", Num(1)>>, <<"severity", Num(1)>> >>),
      Obj(<< <<"message", Str("Unexpected var")>>, <<"line", Num(1)>>, <<"column", Str("1")>> >>) }

\* messages that appear in two-message results
PairedMessages ==
    { Message("File ignored", 1, << <<"severity", Num(1)>> >>),
      Message("Unexpected var", 2, << <<"severity", Num(2)>> >>),
      Message("Unexpected var", 3, << >>),
      Null,
      Obj(<< <<"severity", Num(2)>> >>) }

MessageLists ==
    { << >> } \cup { << m >> : m \in WellFormedMessages \cup MalformedMessages }
    \cup { << m, n >> : m \in PairedMessages, n \in PairedMessages }

FileTexts == { "", "x", "x;" }

LintResults ==
    { Null, Num(5), Str("abc"), Obj(<< >>), Arr(<< >>), Arr(<< Null >>), Arr(<< Num(5) >>),
      Arr(<< Obj(<< >>) >>),
      Arr(<< Obj(<< <<"messages", Str("none")>> >>) >>),
      Arr(<< Obj(<< <<"filePath", Str("a.js")>> >>) >>) }
    \cup { Arr(<< Obj(<< <<"messages", Arr(ms)>> >>) >>) : ms \in MessageLists }

FixResults ==
    { Null, Obj(<< >>), Arr(<< >>), Arr(<< Null >>),
      Arr(<< Obj(<< <<"messages", Arr(<< >>)>> >>) >>),
      Arr(<< Obj(<< <<"output", Str("x;")>> >>) >>) }
    \cup { Arr(<< Obj(<< <<"messages", Arr(<< >>)>>, <<"output", Str(x)>> >>) >>) : x \in FileTexts }

ToolResults == LintResults \cup FixResults

\* texts that are not JSON
NotJson == { "", "Oops!", "[{" }

\* JSON.parse(text): [ok |-> TRUE, value] or [ok |-> FALSE] for a SyntaxError
ParseTable == [ x \in { JSONstringify(v) : v \in ToolResults } |->
                   CHOOSE v \in ToolResults : JSONstringify(v) = x ]

JSONparse(text) ==
    IF text \in DOMAIN ParseTable THEN [ok |-> TRUE, value |-> ParseTable[text]]
    ELSE [ok |-> FALSE]

(***************************************************************************)
(* The regular expression /^File ignored\b/.                               *)
(***************************************************************************)
WordChars ==
    { "a", "b", "c", "d", "e", "f", "g", "h", "i", "j", "k", "l", "m",
      "n", "o", "p", "q", "r", "s", "t", "u", "v", "w", "x", "y", "z",
      "A", "B", "C", "D", "E", "F", "G", "H", "I", "J", "K", "L", "M",
      "N", "O", "P", "Q", "R", "S", "T", "U", "V", "W", "X", "Y", "Z",
      "0", "1", "2", "3", "4", "5", "6", "7", "8", "9", "_" }

FileIgnored == "File ignored"

\* text.match(/^File ignored\b/) is not null: the text starts with the
\* phrase, and the phrase ends at a word boundary
MatchesFileIgnored(text) ==
    /\ Len(text) >= Len(FileIgnored)
    /\ SubSeq(text, 1, Len(FileIgnored)) = FileIgnored
    /\ \/ Len(text) = Len(FileIgnored)
       \/ SubSeq(text, Len(FileIgnored) + 1, Len(FileIgnored) + 1) \notin WordChars

(***************************************************************************)
(* The lint runner: eslint (lines 65-90) and lint (lines 258-272).         *)
(***************************************************************************)
\* nova.config.get("org.nano-eslint.eslint_path", "string") and shell_path
EslintPathSetting == Str("<org.nano-eslint.eslint_path>")
ShellPathSetting == Str("<org.nano-eslint.shell_path>")

ESLINT_PATH == Str("/opt/homebrew/bin/eslint")
SHELL_PATH == Str("/opt/homebrew/bin/fish")

\* nova.path.dirname(p) of a normalised path
dirnameOf(p) == p.dir

\* lines 67-73 of eslint: the options handed to runAsync
EslintInvocation(filepath, configPath, otherArgs) ==
    [ exe |-> EslintPathSetting,
      args |-> << Str("--config"), configPath, Str("--format"), Str("json") >>
               \o otherArgs \o << filepath >>,
      cwd |-> dirnameOf(configPath),
      shell |-> ShellPathSetting ]

\* lines 259-263 of lint
LintInvocation(configpath, filepath) ==
    [ exe |-> ESLINT_PATH,
      args |-> << Str("--format"), Str("json"), filepath >>,
      cwd |-> dirnameOf(configpath),
      shell |-> SHELL_PATH ]

\* line 75: [executablePath, ...args].join(" ")
Command(inv) == << inv.exe >> \o inv.args

\* lines 80-89 of eslint, once runAsync has resolved with the outcome:
\* what it returns, what it throws, and the errors it hands to onError
eslintResume(inv, out) ==
    IF out.stderr # ""
    THEN [ threw |-> FALSE, value |-> Undefined,
           errors |-> << [ kind |-> "Error", command |-> Command(inv),
                           code |-> out.code, stderr |-> out.stderr ] >> ]
    ELSE LET r == JSONparse(out.stdout)
         IN  IF r.ok THEN [threw |-> FALSE, value |-> r.value, errors |-> << >>]
             ELSE [threw |-> FALSE, value |-> Undefined, errors |-> << [kind |-> "SyntaxError"] >>]

\* lines 269-271 of lint: JSON.parse outside any try
lintResume(inv, out) ==
    LET r == JSONparse(out.stdout)
    IN  IF r.ok THEN [threw |-> FALSE, value |-> r.value, errors |-> << >>]
        ELSE [threw |-> TRUE, value |-> Undefined, errors |-> << >>]

(***************************************************************************)
(* maybeLint, first declaration: lines 109-148.                            *)
(***************************************************************************)
\* lines 133-138
SeverityOf(m) ==
    IF Get(m, "severity") = Num(1) THEN "warning"
    ELSE IF Get(m, "severity") = Num(2) THEN "error"
    ELSE "info"

\* lines 140-144: the diagnostic is dropped
SuppressedAnySeverity(sev, text) == MatchesFileIgnored(text)

Suppressed(sev, text) == sev = "warning" /\ MatchesFileIgnored(text)

\* lines 116-123: the entry is skipped as malformed
Malformed(m) ==
    \/ Get(m, "message").t # "string"
    \/ Get(m, "line").t # "number"
    \/ Get(m, "column").t # "number"

\* lines 125-131
NewIssue(m) ==
    [ message |-> Get(m, "message"),
      line |-> Get(m, "line"),
      column |-> Get(m, "column"),
      endLine |-> IF Get(m, "endLine").t = "number" THEN Get(m, "endLine") ELSE Undefined,
      endColumn |-> IF Get(m, "endColumn").t = "number" THEN Get(m, "endColumn") ELSE Undefined,
      severity |-> SeverityOf(m) ]

\* the callback of .map, lines 115-147: throws on a null entry, else
\* yields an issue or nothing
MapMessage(m) ==
    IF Nullish(m) THEN [threw |-> TRUE]
    ELSE IF Malformed(m) THEN [threw |-> FALSE, keep |-> FALSE]
    ELSE IF Suppressed(NewIssue(m).severity, NewIssue(m).message.s)
         THEN [threw |-> FALSE, keep |-> FALSE]
    ELSE [threw |-> FALSE, keep |-> TRUE, issue |-> NewIssue(m)]

\* .map(...).filter(Boolean) from entry k on
RECURSIVE MapMessages(_, _)
MapMessages(ms, k) ==
    IF k > Len(ms) THEN [threw |-> FALSE, value |-> << >>]
    ELSE LET h == MapMessage(ms[k])
             r == MapMessages(ms, k + 1)
         IN  IF h.threw \/ r.threw THEN [threw |-> TRUE]
             ELSE [threw |-> FALSE, value |-> (IF h.keep THEN << h.issue >> ELSE << >>) \o r.value]

\* lines 109-148, given what eslint returned
LintTail(lintingResult) ==
    IF ~IsArray(lintingResult) THEN [threw |-> FALSE, value |-> << >>]
    ELSE LET firstResult == Get0(lintingResult)
         IN  IF ~Truthy(firstResult) \/ ~IsArray(Get(firstResult, "messages"))
             THEN [threw |-> FALSE, value |-> << >>]
             ELSE MapMessages(Get(firstResult, "messages").a, 1)

(***************************************************************************)
(* maybeLint, second declaration: lines 287-303.                           *)
(***************************************************************************)
\* lines 291-293: no branch assigns a severity to any other value
SeverityOf2(m) ==
    IF Get(m, "severity") = Num(0) THEN "info"
    ELSE IF Get(m, "severity") = Num(1) THEN "warning"
    ELSE IF Get(m, "severity") = Num(2) THEN "error"
    ELSE issueDefault

\* lines 289-301
MapMessage2(m) ==
    IF Nullish(m) THEN [threw |-> TRUE]
    ELSE [ threw |-> FALSE, keep |-> TRUE,
           issue |-> [ message |-> Get(m, "message"),
                       line |-> Get(m, "line"),
                       column |-> Get(m, "column"),
                       endLine |-> Get(m, "endLine"),
                       endColumn |-> Get(m, "endColumn"),
                       severity |-> SeverityOf2(m) ] ]

RECURSIVE MapMessages2(_, _)
MapMessages2(ms, k) ==
    IF k > Len(ms) THEN [threw |-> FALSE, value |-> << >>]
    ELSE LET h == MapMessage2(ms[k])
             r == MapMessages2(ms, k + 1)
         IN  IF h.threw \/ r.threw THEN [threw |-> TRUE]
             ELSE [threw |-> FALSE, value |-> << h.issue >> \o r.value]

\* lintingResult[0]?.messages.map(...) ?? []
LintTail2(lintingResult) ==
    IF Nullish(lintingResult) THEN [threw |-> TRUE]
    ELSE LET first == Get0(lintingResult)
         IN  IF Nullish(first) THEN [threw |-> FALSE, value |-> << >>]
             ELSE IF ~IsArray(Get(first, "messages")) THEN [threw |-> TRUE]
             ELSE MapMessages2(Get(first, "messages").a, 1)

(***************************************************************************)
(* maybeLint as a state machine: the call up to the await, and the rest    *)
(* of it once the process has exited.                                      *)
(***************************************************************************)
\* the try / catch around the body of maybeLint (lines 97, 149-152 and
\* 279, 304-307): how the promise settles for a body that threw or returned
Settle(r) ==
    IF r.threw THEN [st |-> "resolved", issues |-> << >>]
    ELSE [st |-> "resolved", issues |-> r.value]

NoOutcome == [exited |-> FALSE]

\* a call that settles before any process has run
Settled(r, spawned) ==
    [ st |-> Settle(r).st, issues |-> Settle(r).issues, spawned |-> spawned,
      outcome |-> NoOutcome, runner |-> [threw |-> r.threw, value |-> Undefined, errors |-> << >>] ]

Awaiting(inv) == [st |-> "awaiting", spawned |-> << inv >>]

\* new Process(...) / process.start() either starts the process or throws
\* inside the promise executor, which rejects the awaited promise: a call
\* that reaches runAsync goes on to Awaiting or settles through the catch.
\* lines 98-107: the first declaration up to "await runAsync"
LintCall1 ==
    IF ~Truthy(path) THEN { Settled([threw |-> FALSE, value |-> << >>], << >>) }
    ELSE LET configPath == getClosestEslintConfig(dirnameOf(path))
         IN  IF ~Truthy(configPath) THEN { Settled([threw |-> FALSE, value |-> << >>], << >>) }
             ELSE { Awaiting(EslintInvocation(path, configPath, << >>)),
                    Settled([threw |-> TRUE], << EslintInvocation(path, configPath, << >>) >>) }

\* nova.path.dirname(filepath) of the second declaration, line 282, which
\* has no test of the path: handed undefined, the host function raises a
\* TypeError (caught at line 304)
DirnameResult ==
    IF path = Undefined THEN [threw |-> TRUE]
    ELSE [threw |-> FALSE, dir |-> dirnameOf(path)]

\* lines 280-285: the second declaration up to "await runAsync"
LintCall2 ==
    IF DirnameResult.threw THEN { Settled([threw |-> TRUE], << >>) }
    ELSE LET configpath == getClosestEslintConfig(DirnameResult.dir)
         IN  IF ~Truthy(configpath)
             THEN { Settled([threw |-> FALSE, value |-> << >>], << >>) }
             ELSE { Awaiting(LintInvocation(configpath, path)),
                    Settled([threw |-> TRUE], << LintInvocation(configpath, path) >>) }

\* the issue assistant asks for the issues of the document
LintRequest ==
    /\ lint.st # "awaiting"
    /\ lint' \in (IF variant = 1 THEN LintCall1 ELSE LintCall2)
    /\ UNCHANGED <<locVars, path, issueDefault, fixVars>>

ExitCodes == { 0, 1, 2 }
StderrTexts == { "", "Oops!" }
LintStdouts == { JSONstringify(v) : v \in LintResults } \cup NotJson

\* the rest of maybeLint once the process has exited
LintResumed(inv, out) ==
    LET run == IF variant = 1 THEN eslintResume(inv, out) ELSE lintResume(inv, out)
        body == IF run.threw THEN [threw |-> TRUE]
                ELSE IF variant = 1 THEN LintTail(run.value)
                ELSE LintTail2(run.value)
    IN  [ st |-> Settle(body).st, issues |-> Settle(body).issues, spawned |-> << inv >>,
          outcome |-> [exited |-> TRUE, code |-> out.code, stdout |-> out.stdout, stderr |-> out.stderr],
          runner |-> run ]

\* process.onDidExit fires: runAsync resolves and maybeLint runs to its end
LintExit ==
    /\ lint.st = "awaiting"
    /\ \E code \in ExitCodes, stdout \in LintStdouts, stderr \in StderrTexts :
          lint' = LintResumed(lint.spawned[1], [code |-> code, stdout |-> stdout, stderr |-> stderr])
    /\ UNCHANGED <<locVars, path, issueDefault, fixVars>>

DocumentName == "a.js"

\* the filesystems of the editor model, for a document in directory NearDepth
EditorTrees ==
    { {},
      { [dir |-> NearDepth - 1, name |-> "eslint.config.js"] },
      { [dir |-> NearDepth, name |-> "eslint.config.mjs"],
        [dir |-> NearDepth - 1, name |-> "eslint.config.js"] },
      { [dir |-> NearDepth - 1, name |-> UserName] } }

IssueDefaults == { "unset", "info", "warning", "error" }

InitLint ==
    /\ variant \in {1, 2}
    /\ joinNormalizes \in BOOLEAN
    /\ config_names \in ConfigNamesSettings
    /\ dirname = NearDepth
    /\ fs \in EditorTrees
    /\ i = 0
    /\ pc = "done"
    /\ found = Undefined
    /\ path \in { Undefined, [t |-> "path", dir |-> dirname, name |-> DocumentName] }
    /\ issueDefault \in IssueDefaults
    /\ lint = [st |-> "idle"]
    /\ fix_on_save = Null
    /\ editor = [added |-> FALSE]
    /\ doc = ""
    /\ disk = ""
    /\ runs = << >>
    /\ timers = 0
    /\ lastFix = [st |-> "none"]

NextLint == LintRequest \/ LintExit

SpecLint == InitLint /\ [][NextLint]_vars

(***************************************************************************)
(* maybeFix (lines 156-181) and the onWillSave listener (lines 185-199).   *)
(***************************************************************************)
MaxInFlight == 2    \* maybeFix calls in flight plus pending timers

Bool(b) == [t |-> "boolean", b |-> b]

\* nova.config.get("org.nano-eslint.fix_on_save", "boolean") ?? false
shouldFix == IF fix_on_save = Null THEN FALSE ELSE fix_on_save.b

\* line 168: results?.[0]?.output
OutputOf(results) ==
    IF Nullish(results) THEN Undefined
    ELSE IF Nullish(Get0(results)) THEN Undefined
    ELSE Get(Get0(results), "output")

\* lines 169-174: maybeFix goes on to editor.edit
WantsEdit(output, currentText) == Truthy(output) /\ Str(currentText) # output

\* lines 191-196: the timers the .then callback sets for maybeFix's result
ThenTimers(didChange) == IF didChange THEN 1 ELSE 0

\* line 197: the .catch callback logs a rejection of maybeFix, so none
\* reaches the host unhandled
Raised(rejected) == FALSE

\* lines 190-197: the timers set once maybeFix has settled; a rejection
\* skips the .then callback
Scheduled(st) == IF st = "rejected" THEN 0 ELSE ThenTimers(st = "true")

\* a maybeFix call has settled and the listener's callbacks have run
FixSettled(st, run, edited) ==
    [ st |-> st, edited |-> edited, scheduled |-> Scheduled(st),
      raised |-> Raised(st = "rejected"), run |-> run ]

\* a call that has not reached runAsync
NoRun == [stage |-> "none", spawned |-> << >>]

\* lines 157-167: maybeFix up to "await runAsync": it returns false, or
\* starts the process, or rejects because the process cannot be started
FixCall ==
    IF ~Truthy(path) THEN { [settled |-> TRUE, st |-> "false", run |-> NoRun] }
    ELSE LET configPath == getClosestEslintConfig(dirnameOf(path))
             inv == EslintInvocation(path, configPath, << Str("--fix-dry-run") >>)
         IN  IF ~Truthy(configPath) THEN { [settled |-> TRUE, st |-> "false", run |-> NoRun] }
             ELSE { [ settled |-> FALSE,
                      run |-> [stage |-> "process", spawned |-> << inv >>, read |-> FALSE] ],
                    [ settled |-> TRUE, st |-> "rejected",
                      run |-> [stage |-> "none", spawned |-> << inv >>] ] }

\* the host saves the document: the onWillSave listener, when installed,
\* calls maybeFix and returns; then the text is written to the file
\* (fired is 1 when the save comes from a timer, which is then spent)
WillSave(fired) ==
    /\ disk' = doc
    /\ doc' = doc
    /\ IF editor.hooked
       THEN \E c \in FixCall :
               IF c.settled
               THEN /\ lastFix' = FixSettled(c.st, c.run, FALSE)
                    /\ runs' = runs
                    /\ timers' = timers - fired + Scheduled(c.st)
               ELSE /\ lastFix' = [st |-> "none"]
                    /\ runs' = Append(runs, c.run)
                    /\ timers' = timers - fired
       ELSE /\ lastFix' = [st |-> "none"]
            /\ runs' = runs
            /\ timers' = timers - fired

\* nova.workspace.onDidAddTextEditor fires, lines 185-199
AddTextEditor ==
    /\ ~editor.added
    /\ editor' = [added |-> TRUE, shouldFix |-> shouldFix, hooked |-> shouldFix]
    /\ lastFix' = [st |-> "none"]
    /\ UNCHANGED <<locVars, lintVars, fix_on_save, doc, disk, runs, timers>>

\* the user changes the setting
SetFixOnSave ==
    /\ \E v \in { Null, Bool(TRUE), Bool(FALSE) } : v # fix_on_save /\ fix_on_save' = v
    /\ lastFix' = [st |-> "none"]
    /\ UNCHANGED <<locVars, lintVars, editor, doc, disk, runs, timers>>

\* the user edits the document
Type ==
    /\ editor.added
    /\ \E x \in FileTexts : x # doc /\ doc' = x
    /\ lastFix' = [st |-> "none"]
    /\ UNCHANGED <<locVars, lintVars, fix_on_save, editor, disk, runs, timers>>

\* the user saves the document
Save ==
    /\ editor.added
    /\ Len(runs) + timers < MaxInFlight
    /\ WillSave(0)
    /\ UNCHANGED <<locVars, lintVars, fix_on_save, editor>>

\* a timer of line 194 fires: editor.save()
TimerFire ==
    /\ timers > 0
    /\ WillSave(1)
    /\ UNCHANGED <<locVars, lintVars, fix_on_save, editor>>

Remove(seq, k) == SubSeq(seq, 1, k - 1) \o SubSeq(seq, k + 1, Len(seq))

\* the external tool reads the file it was asked to fix
ReadFile ==
    /\ \E k \in 1 .. Len(runs) :
          /\ runs[k].stage = "process"
          /\ ~runs[k].read
          /\ runs' = [runs EXCEPT ![k] = [stage |-> "process", spawned |-> runs[k].spawned,
                                          read |-> TRUE, input |-> disk]]
    /\ lastFix' = [st |-> "none"]
    /\ UNCHANGED <<locVars, lintVars, fix_on_save, editor, doc, disk, timers>>

FixStdouts == { JSONstringify(v) : v \in FixResults } \cup NotJson

\* the process exits: runAsync resolves and maybeFix runs on to its return
\* or to "await editor.edit", lines 168-176
FixExit ==
    /\ \E k \in 1 .. Len(runs) :
          /\ runs[k].stage = "process"
          /\ runs[k].read
          /\ \E code \in ExitCodes, stdout \in FixStdouts, stderr \in StderrTexts :
                LET out == [code |-> code, stdout |-> stdout, stderr |-> stderr]
                    results == eslintResume(runs[k].spawned[1], out).value
                    output == OutputOf(results)
                    seen == [ stage |-> "exited", spawned |-> runs[k].spawned,
                              input |-> runs[k].input, stdout |-> stdout, stderr |-> stderr,
                              output |-> output, compared |-> doc ]
                IN  IF WantsEdit(output, doc)
                    THEN /\ runs' = [runs EXCEPT ![k] =
                                        [ stage |-> "editing", spawned |-> runs[k].spawned,
                                          input |-> runs[k].input, output |-> output ]]
                         /\ lastFix' = [st |-> "editing", run |-> seen]
                         /\ timers' = timers
                    ELSE /\ runs' = Remove(runs, k)
                         /\ lastFix' = FixSettled("false", seen, FALSE)
                         /\ timers' = timers + Scheduled("false")
    /\ UNCHANGED <<locVars, lintVars, fix_on_save, editor, doc, disk>>

\* the host accepts the edit of lines 176-178: the document is replaced,
\* maybeFix returns true and the .then callback runs
EditAccepted ==
    /\ \E k \in 1 .. Len(runs) :
          /\ runs[k].stage = "editing"
          /\ doc' = runs[k].output.s
          /\ runs' = Remove(runs, k)
          /\ lastFix' = FixSettled("true", [ stage |-> "edited", spawned |-> runs[k].spawned,
                                             input |-> runs[k].input, output |-> runs[k].output,
                                             replaced |-> doc ], TRUE)
          /\ timers' = timers + Scheduled("true")
    /\ UNCHANGED <<locVars, lintVars, fix_on_save, editor, disk>>

\* the host rejects the edit: maybeFix rejects and the .catch callback runs
EditRejected ==
    /\ \E k \in 1 .. Len(runs) :
          /\ runs[k].stage = "editing"
          /\ runs' = Remove(runs, k)
          /\ lastFix' = FixSettled("rejected", runs[k], FALSE)
          /\ timers' = timers + Scheduled("rejected")
    /\ UNCHANGED <<locVars, lintVars, fix_on_save, editor, doc, disk>>

\* the documents of the fix model: one without a path, one whose directory
\* chain holds no config file, one with a config file in the parent directory
FixScenarios ==
    { [path |-> Undefined, fs |-> { [dir |-> NearDepth - 1, name |-> "eslint.config.js"] }],
      [path |-> [t |-> "path", dir |-> NearDepth, name |-> DocumentName], fs |-> {}],
      [path |-> [t |-> "path", dir |-> NearDepth, name |-> DocumentName],
       fs |-> { [dir |-> NearDepth - 1, name |-> "eslint.config.js"] }] }

InitFix ==
    /\ variant \in {1, 2}
    /\ joinNormalizes \in BOOLEAN
    /\ config_names = [isNull |-> TRUE, value |-> << >>]
    /\ dirname = NearDepth
    /\ \E sc \in FixScenarios : path = sc.path /\ fs = sc.fs
    /\ i = 0
    /\ pc = "done"
    /\ found = Undefined
    /\ issueDefault = "unset"
    /\ lint = [st |-> "idle"]
    /\ fix_on_save = Null
    /\ editor = [added |-> FALSE, shouldFix |-> FALSE, hooked |-> FALSE]
    /\ doc = "x"
    /\ disk = "x"
    /\ runs = << >>
    /\ timers = 0
    /\ lastFix = [st |-> "none"]

NextFix ==
    \/ AddTextEditor
    \/ SetFixOnSave
    \/ Type
    \/ Save
    \/ TimerFire
    \/ ReadFile
    \/ FixExit
    \/ EditAccepted
    \/ EditRejected

SpecFix == InitFix /\ [][NextFix]_vars

(***************************************************************************)
(* What the locator is specified to return.                                *)
(***************************************************************************)
Min(a, b) == IF a <= b THEN a ELSE b

\* the ordered candidate list: user-configured names, then the defaults
CandidateNames == ConfigNamesOrEmpty \o DEFAULT_ESLINT_CONFIG_FILENAMES

\* the directory reached after l parent traversals ("/" has no parent)
Ancestor(l) == Max(dirname - l, 0)

CandidateAt(l) ==
    \E k \in 1 .. Len(CandidateNames) : [dir |-> Ancestor(l), name |-> CandidateNames[k]] \in fs

NearestLevel == CHOOSE l \in 0 .. dirname : CandidateAt(l) /\ \A m \in 0 .. (l - 1) : ~CandidateAt(m)

EarliestName(l) ==
    LET k == CHOOSE k \in 1 .. Len(CandidateNames) :
                 /\ [dir |-> Ancestor(l), name |-> CandidateNames[k]] \in fs
                 /\ \A j \in 1 .. (k - 1) : [dir |-> Ancestor(l), name |-> CandidateNames[j]] \notin fs
    IN  CandidateNames[k]

NearestCandidate ==
    [t |-> "path", dir |-> Ancestor(NearestLevel), name |-> EarliestName(NearestLevel)]

NoCandidateThrough(l) == \A m \in 0 .. l : ~CandidateAt(m)

\* C1: when a candidate exists in the start directory or an ancestor of it
\* (within the first AscentLimit levels), getClosestEslintConfig returns the
\* earliest-listed candidate of the nearest such directory.
LocatorReturnsNearest ==
    (pc = "done" /\ \E l \in 0 .. Min(dirname, AscentLimit) : CandidateAt(l))
        => found = NearestCandidate

\* C1 for the first declaration alone
LocatorReturnsNearestFirstDeclaration == variant = 1 => LocatorReturnsNearest

\* C1, reached: a farther directory holds an earlier-listed name, a closer
\* one a later-listed name, and the closer one is returned
LocatorReturnsNearestReached ==
    /\ pc = "done" /\ variant = 1 /\ dirname >= 1
    /\ [dir |-> dirname, name |-> "eslint.config.cts"] \in fs
    /\ [dir |-> dirname - 1, name |-> "eslint.config.js"] \in fs
    /\ found = [t |-> "path", dir |-> dirname, name |-> "eslint.config.cts"]

\* C2 as claimed: the loop counter stays bounded, the walk never sticks,
\* and the result is absent when no candidate exists up to the root or at
\* levels 0 through 100.
LocatorAbsentThrough100 ==
    /\ i <= AscentLimit + 1
    /\ (pc = "done" \/ ENABLED NextLocate)
    /\ (pc = "done" /\ NoCandidateThrough(dirname)) => found = Undefined
    /\ (pc = "done" /\ NoCandidateThrough(AscentLimit)) => found = Undefined

\* C2 as amended: the loop counter stays bounded, the walk never sticks,
\* and the result is absent when no candidate exists up to the root or at
\* levels 0 through 101 (the level at which i first exceeds 100 is probed
\* before the walk gives up).
LocatorAbsentThrough101 ==
    /\ i <= AscentLimit + 1
    /\ (pc = "done" \/ ENABLED NextLocate)
    /\ (pc = "done" /\ NoCandidateThrough(dirname)) => found = Undefined
    /\ (pc = "done" /\ NoCandidateThrough(AscentLimit + 1)) => found = Undefined

\* C2, reached: a candidate sits above level 101, none below, and the
\* walk has returned absent
LocatorAbsentThrough101Reached ==
    /\ pc = "done" /\ found = Undefined
    /\ dirname >= AscentLimit + 2
    /\ NoCandidateThrough(AscentLimit + 1)
    /\ CandidateAt(AscentLimit + 2)

(***************************************************************************)
(* What the lint runner and maybeLint are specified to do.                 *)
(***************************************************************************)
Exited == lint.st \in {"resolved", "rejected"} /\ lint.outcome.exited

\* the value the tool printed, when its standard output is JSON
Printed == ParseTable[lint.outcome.stdout]

IsJson(text) == text \notin NotJson

\* C3: once the process has exited the runner has not thrown; with stderr
\* it reports one error naming command, exit code and stderr and yields
\* nothing; with empty stderr and non-JSON stdout it reports one parse
\* failure and yields nothing; with empty stderr and JSON stdout it reports
\* nothing and yields the parsed value, whatever the exit code.
RunnerNeverThrows ==
    Exited =>
        /\ ~lint.runner.threw
        /\ lint.outcome.stderr # "" =>
              /\ lint.runner.errors =
                    << [ kind |-> "Error", command |-> Command(lint.spawned[1]),
                         code |-> lint.outcome.code, stderr |-> lint.outcome.stderr ] >>
              /\ lint.runner.value = Undefined
        /\ (lint.outcome.stderr = "" /\ ~IsJson(lint.outcome.stdout)) =>
              /\ Len(lint.runner.errors) = 1
              /\ lint.runner.errors[1].kind = "SyntaxError"
              /\ lint.runner.value = Undefined
        /\ (lint.outcome.stderr = "" /\ IsJson(lint.outcome.stdout)) =>
              /\ lint.runner.errors = << >>
              /\ lint.runner.value = Printed

\* C3 for the runner eslint of the first declaration alone
RunnerNeverThrowsFirstDeclaration == variant = 1 => RunnerNeverThrows

\* the diagnostics the tool printed for the first file, when it printed any
InputMessages ==
    IF /\ Exited
       /\ IsJson(lint.outcome.stdout)
       /\ IsArray(Printed)
       /\ Len(Printed.a) >= 1
       /\ ~Nullish(Printed.a[1])
       /\ IsArray(Get(Printed.a[1], "messages"))
    THEN Get(Printed.a[1], "messages").a
    ELSE << >>

\* the severity the specification assigns to a diagnostic
SpecSeverity(m) ==
    CASE Get(m, "severity") = Num(2) -> "error"
      [] Get(m, "severity") = Num(1) -> "warning"
      [] OTHER -> "info"

\* the issue stems from the diagnostic m, with the specified severity
IssueOf(issue, m) ==
    /\ ~Nullish(m)
    /\ issue.message = Get(m, "message")
    /\ issue.line = Get(m, "line")
    /\ issue.column = Get(m, "column")
    /\ issue.severity = SpecSeverity(m)

\* C6: every issue returned carries one of the three severities, and it is
\* the one specified for the diagnostic it stems from: 2 is error, 1 is
\* warning, 0 or a missing or any other value is info.
SeverityTotal ==
    lint.st = "resolved" =>
        \A k \in 1 .. Len(lint.issues) :
            /\ lint.issues[k].severity \in {"info", "warning", "error"}
            /\ \E j \in 1 .. Len(InputMessages) : IssueOf(lint.issues[k], InputMessages[j])

\* C6 for the first declaration alone
SeverityTotalFirstDeclaration == variant = 1 => SeverityTotal

WellFormed(m) ==
    /\ ~Nullish(m)
    /\ Get(m, "message").t = "string"
    /\ Get(m, "line").t = "number"
    /\ Get(m, "column").t = "number"

\* the mapping of the first declaration ran to its end
MappedFirstDeclaration ==
    /\ variant = 1
    /\ Exited
    /\ lint.outcome.stderr = ""
    /\ \A j \in 1 .. Len(InputMessages) : ~Nullish(InputMessages[j])

Kept(m) == \E k \in 1 .. Len(lint.issues) : IssueOf(lint.issues[k], m)

BeginsWith(text, phrase) ==
    Len(text) >= Len(phrase) /\ SubSeq(text, 1, Len(phrase)) = phrase

\* the phrase is the whole text or is followed by a character that is not
\* a letter, a digit or an underscore
BeginsWithWord(text, phrase) ==
    /\ BeginsWith(text, phrase)
    /\ \/ Len(text) = Len(phrase)
       \/ \A c \in WordChars : SubSeq(text, Len(phrase) + 1, Len(phrase) + 1) # c

\* C7 as claimed: a well-formed diagnostic is dropped if and only if it is
\* a warning whose text begins with "File ignored".
DroppedIffWarningWithPrefix ==
    MappedFirstDeclaration =>
        \A j \in 1 .. Len(InputMessages) :
            WellFormed(InputMessages[j]) =>
                (~Kept(InputMessages[j]) <=>
                    /\ SpecSeverity(InputMessages[j]) = "warning"
                    /\ BeginsWith(Get(InputMessages[j], "message").s, "File ignored"))

\* C7 as amended: a well-formed diagnostic is dropped if and only if it is
\* a warning whose text begins with "File ignored" and the phrase ends
\* there at a word boundary (end of text, or a character that is not a
\* letter, digit or underscore).
DroppedIffWarningWithPhrase ==
    MappedFirstDeclaration =>
        \A j \in 1 .. Len(InputMessages) :
            WellFormed(InputMessages[j]) =>
                (~Kept(InputMessages[j]) <=>
                    /\ SpecSeverity(InputMessages[j]) = "warning"
                    /\ BeginsWithWord(Get(InputMessages[j], "message").s, "File ignored"))

\* C7, reached: the warning "File ignored later" was dropped while the
\* mapping ran to its end
DroppedIffWarningWithPhraseReached ==
    /\ MappedFirstDeclaration
    /\ InputMessages = << Message("File ignored later", 1, << <<"severity", Num(1)>> >>) >>
    /\ lint.issues = << >>

(***************************************************************************)
(* What maybeFix and the save hook are specified to do.                    *)
(***************************************************************************)
FixDone == lastFix.st \in {"true", "false", "rejected"}

\* the process of the call observed in lastFix has exited
FixExited == lastFix.st \in {"editing", "false"} /\ lastFix.run.stage = "exited"

\* the value the tool printed for the fix run, when its output is JSON
FixPrinted == ParseTable[lastFix.run.stdout]

\* the tool ran cleanly and its first result has an output field
BodyReported ==
    /\ FixExited
    /\ lastFix.run.stderr = ""
    /\ IsJson(lastFix.run.stdout)
    /\ IsArray(FixPrinted)
    /\ Len(FixPrinted.a) >= 1
    /\ ~Nullish(FixPrinted.a[1])
    /\ Get(FixPrinted.a[1], "output").t = "string"

Body == Get(FixPrinted.a[1], "output").s

\* C4: maybeFix asks for the replacement of the whole document by the
\* reported fix body if and only if a body is reported and differs from the
\* current text; the accepted edit leaves the document equal to the body;
\* maybeFix returns true exactly when it edited the document.
FixAppliedIffDiffers ==
    /\ (FixExited /\ lastFix.run.stderr = "") =>
          (lastFix.st = "editing" <=> (BodyReported /\ Body # lastFix.run.compared))
    /\ lastFix.st = "editing" => lastFix.run.output = Str(Body)
    /\ lastFix.st = "true" => (lastFix.edited /\ Str(doc) = lastFix.run.output)
    /\ FixDone => (lastFix.st = "true" <=> lastFix.edited)

\* C4 for fix bodies that are not the empty text
FixAppliedIffDiffersNonEmpty ==
    /\ (FixExited /\ lastFix.run.stderr = "" /\ ~(BodyReported /\ Body = "")) =>
          (lastFix.st = "editing" <=> (BodyReported /\ Body # lastFix.run.compared))
    /\ lastFix.st = "editing" => lastFix.run.output = Str(Body)
    /\ lastFix.st = "true" => (lastFix.edited /\ Str(doc) = lastFix.run.output)
    /\ FixDone => (lastFix.st = "true" <=> lastFix.edited)

\* C10: whenever maybeFix replaces the document, the tool computed the fix
\* from the text the document held at the moment of replacement.
FixNeverStale ==
    lastFix.st = "true" => lastFix.run.input = lastFix.run.replaced

\* the save hook's part of C9 that does not depend on the setting: a save
\* is scheduled once if maybeFix replaced the document and not at all
\* otherwise, and it is scheduled with the edit already in the document
SaveScheduledIffEdited ==
    FixDone =>
        /\ lastFix.scheduled = (IF lastFix.edited THEN 1 ELSE 0)
        /\ lastFix.scheduled >= 1 => (lastFix.st = "true" /\ Str(doc) = lastFix.run.output)

\* C9: the above, and while fix-on-save is disabled no hook is installed
\* and no maybeFix call edits the document.
SaveHookWhileDisabled ==
    /\ SaveScheduledIffEdited
    /\ ~shouldFix => (~editor.hooked /\ lastFix.st \notin {"editing", "true"})

\* C9 for the setting as it was when the editor was added: the above, and
\* an editor added while fix-on-save is disabled has no hook, no maybeFix
\* call, no timer: saving it never edits the document; a hook is installed
\* only by an editor added while enabled.
SaveHookWhenAddedDisabled ==
    /\ SaveScheduledIffEdited
    /\ editor.hooked => (editor.added /\ editor.shouldFix)
    /\ ~editor.hooked => (runs = << >> /\ timers = 0 /\ lastFix.st = "none")

\* the save hook at work: maybeFix replaced the document and one save is scheduled
SaveHookWhenAddedDisabledReached ==
    /\ lastFix.st = "true"
    /\ lastFix.scheduled = 1
    /\ timers >= 1
    /\ Str(doc) = lastFix.run.output

(***************************************************************************)
(* Failures and process invocations, across maybeLint and maybeFix.        *)
(***************************************************************************)
\* maybeLint obtained no valid diagnostic
NoValidDiagnostics ==
    \/ lint.spawned = << >>
    \/ ~lint.outcome.exited
    \/ lint.outcome.stderr # ""
    \/ ~IsJson(lint.outcome.stdout)
    \/ ~IsArray(Printed)
    \/ InputMessages = << >>
    \/ \E j \in 1 .. Len(InputMessages) : Nullish(InputMessages[j])
    \/ \A j \in 1 .. Len(InputMessages) : ~WellFormed(InputMessages[j])

LintFailsQuietly ==
    /\ lint.st # "rejected"
    /\ (lint.st = "resolved" /\ NoValidDiagnostics) => lint.issues = << >>

\* the maybeFix call observed in lastFix failed
FixFailed ==
    \/ lastFix.run.stage = "none"
    \/ lastFix.st = "rejected"
    \/ /\ lastFix.run.stage = "exited"
       /\ \/ lastFix.run.stderr # ""
          \/ ~IsJson(lastFix.run.stdout)
          \/ ~IsArray(FixPrinted)
          \/ FixPrinted.a = << >>

FixFailsQuietly ==
    FixDone =>
        /\ ~lastFix.raised
        /\ FixFailed => (~lastFix.edited /\ lastFix.scheduled = 0)

\* C5: maybeLint never rejects and resolves with an empty list whenever no
\* valid diagnostic was obtained; a failed maybeFix call on the save hook
\* leaves the document unedited, schedules no save and raises nothing.
NoFailureReachesHost == LintFailsQuietly /\ FixFailsQuietly

\* C5 for the first declaration of maybeLint alone
NoFailureReachesHostFirstDeclaration == variant = 1 => NoFailureReachesHost

\* the config lookup of a request for the document
Lookup == IF Truthy(path) THEN getClosestEslintConfig(dirnameOf(path)) ELSE Undefined

Follows(args, flag, value) ==
    \E k \in 1 .. (Len(args) - 1) : args[k] = flag /\ args[k + 1] = value

Has(args, flag) == \E k \in 1 .. Len(args) : args[k] = flag

\* the invocations of one request: one, as specified, when the lookup
\* succeeds, none when it does not
SpawnedAsSpecified(spawned, isFix) ==
    IF Truthy(Lookup)
    THEN /\ Len(spawned) = 1
         /\ spawned[1].cwd = Lookup.dir
         /\ Follows(spawned[1].args, Str("--config"), Lookup)
         /\ Follows(spawned[1].args, Str("--format"), Str("json"))
         /\ Has(spawned[1].args, Str("--fix-dry-run")) <=> isFix
         /\ spawned[1].args[Len(spawned[1].args)] = path
    ELSE spawned = << >>

\* C8: every lint or fix request spawns one process, in the directory of
\* the resolved config file, with --config <config>, --format json,
\* --fix-dry-run exactly for a fix request, and the file path last; a
\* request without a path or without a config file spawns none.
OneProcessPerRequest ==
    /\ lint.st # "idle" => SpawnedAsSpecified(lint.spawned, FALSE)
    /\ \A k \in 1 .. Len(runs) : SpawnedAsSpecified(runs[k].spawned, TRUE)
    /\ lastFix.st # "none" => SpawnedAsSpecified(lastFix.run.spawned, TRUE)

\* C8 for the runner eslint of the first declaration alone
OneProcessPerRequestFirstDeclaration == variant = 1 => OneProcessPerRequest

====
